---------------------------- MODULE Spec2Model ----------------------------
(***************************************************************************)
(* Model of the gh-ai-proxy Cloudflare Worker: the router (worker.fetch),  *)
(* the three review handlers over the single KV key "reviews", the UTF-8   *)
(* JSON codec, and the GitHub Models proxy handler.                        *)
(*                                                                         *)
(* A handler is an async function: it runs atomically between two awaits   *)
(* and may be interleaved with other requests at each await of store or    *)
(* upstream I/O.  Each request slot carries its own locals.                *)
(*                                                                         *)
(* Strings are sequences of UTF-16 code units, a stored value is the       *)
(* sequence of records written by putJsonUtf8 with every string as its     *)
(* UTF-8 bytes.                                                            *)
(***************************************************************************)
EXTENDS Integers, Sequences, FiniteSets, TLC

(***************************************************************************)
(* Bounds of the model                                                     *)
(***************************************************************************)
NumReq == 2

\* The longest collection handed to the codec on its own.
MaxCodecLen == 2

Reqs == 1..NumReq

(***************************************************************************)
(* The strings of the model: the names and texts of the seed records of    *)
(* handleGetReviews, and the names and texts the clients send.             *)
(***************************************************************************)
\* "Jennifer D."
SeedName1 == <<74, 101, 110, 110, 105, 102, 101, 114, 32, 68, 46>>

\* "My 3 children went to Deebas Daycare over the past 16yrs..."
SeedText1 ==
  <<77, 121, 32, 51, 32, 99, 104, 105, 108, 100, 114, 101, 110, 32, 119, 101,
    110, 116, 32, 116, 111, 32, 68, 101, 101, 98, 97, 115, 32, 68, 97, 121,
    99, 97, 114, 101, 32, 111, 118, 101, 114, 32, 116, 104, 101, 32, 112, 97,
    115, 116, 32, 49, 54, 121, 114, 115, 46, 46, 46>>

\* "We are very grateful for the care and support provided..."
SeedText2 ==
  <<87, 101, 32, 97, 114, 101, 32, 118, 101, 114, 121, 32, 103, 114, 97, 116,
    101, 102, 117, 108, 32, 102, 111, 114, 32, 116, 104, 101, 32, 99, 97,
    114, 101, 32, 97, 110, 100, 32, 115, 117, 112, 112, 111, 114, 116, 32,
    112, 114, 111, 118, 105, 100, 101, 100, 46, 46, 46>>

\* "I highly recommend Deeba's daycare. My son loves it there..." (U+2019)
SeedText3 ==
  <<73, 32, 104, 105, 103, 104, 108, 121, 32, 114, 101, 99, 111, 109, 109,
    101, 110, 100, 32, 68, 101, 101, 98, 97, 8217, 115, 32, 100, 97, 121, 99,
    97, 114, 101, 46, 32, 77, 121, 32, 115, 111, 110, 32, 108, 111, 118, 101,
    115, 32, 105, 116, 32, 116, 104, 101, 114, 101, 46, 46, 46>>

\* "a", "A", "a " and "jennifer d."
NameLower == <<97>>

NameUpper == <<65>>

NameSpace == <<97, 32>>

NameSeedLower == <<106, 101, 110, 110, 105, 102, 101, 114, 32, 100, 46>>

\* "h" followed by U+1F60A (a surrogate pair, four bytes in UTF-8)
TextEmoji == <<104, 55357, 56842>>

Strings ==
  { <<>>, SeedName1, SeedText1, SeedText2, SeedText3,
    NameLower, NameUpper, NameSpace, NameSeedLower, TextEmoji }

(***************************************************************************)
(* TextEncoder and TextDecoder                                             *)
(***************************************************************************)
IsHighSurrogate(u) == u >= 55296 /\ u <= 56319

IsLowSurrogate(u) == u >= 56320 /\ u <= 57343

\* TextEncoder.encode, the bytes that unit i of the string s gives: a
\* surrogate pair gives its four bytes at the high surrogate and nothing at
\* the low one, an unpaired surrogate gives the bytes of U+FFFD.
UnitBytes(s, i) ==
  LET u == s[i] IN
  IF u < 128 THEN <<u>>
  ELSE IF u < 2048 THEN <<192 + (u \div 64), 128 + (u % 64)>>
  ELSE IF IsHighSurrogate(u)
    THEN IF i < Len(s) /\ IsLowSurrogate(s[i + 1])
           THEN LET cp == 65536 + (u - 55296) * 1024 + (s[i + 1] - 56320)
                IN <<240 + (cp \div 262144), 128 + ((cp \div 4096) % 64),
                     128 + ((cp \div 64) % 64), 128 + (cp % 64)>>
           ELSE <<239, 191, 189>>
  ELSE IF IsLowSurrogate(u)
    THEN IF i > 1 /\ IsHighSurrogate(s[i - 1]) THEN <<>> ELSE <<239, 191, 189>>
  ELSE <<224 + (u \div 4096), 128 + ((u \div 64) % 64), 128 + (u % 64)>>

\* The first index from lo on at which the sequence s holds a value of 128
\* or more, Len(s) + 1 when there is none.
FirstNonAscii(s, lo) ==
  LET high == {i \in lo..Len(s) : s[i] >= 128}
  IN IF high = {} THEN Len(s) + 1
     ELSE CHOOSE i \in high : \A j \in high : i <= j

\* The bytes of the units of s from lo on: a run of ASCII units is its own
\* encoding.
RECURSIVE EncodeFrom(_, _)
EncodeFrom(s, lo) ==
  LET i == FirstNonAscii(s, lo) IN
  IF i > Len(s) THEN SubSeq(s, lo, Len(s))
  ELSE SubSeq(s, lo, i - 1) \o UnitBytes(s, i) \o EncodeFrom(s, i + 1)

TextEncode(s) == EncodeFrom(s, 1)

IsCont(b, i) == i >= 1 /\ i <= Len(b) /\ b[i] >= 128 /\ b[i] < 192

\* The length of the well-formed sequence that starts at byte i of b, 0 when
\* none does.
SeqLen(b, i) ==
  IF i < 1 \/ i > Len(b) THEN 0
  ELSE LET c == b[i] IN
    IF c < 128 THEN 1
    ELSE IF c >= 194 /\ c < 224 /\ IsCont(b, i + 1) THEN 2
    ELSE IF c >= 224 /\ c < 240 /\ IsCont(b, i + 1) /\ IsCont(b, i + 2) THEN 3
    ELSE IF c >= 240 /\ c < 245 /\ IsCont(b, i + 1) /\ IsCont(b, i + 2)
            /\ IsCont(b, i + 3) THEN 4
    ELSE 0

\* new TextDecoder("utf-8").decode, the units that byte i of b gives: a
\* well-formed sequence gives its code point at its first byte and nothing at
\* the others, any other byte gives U+FFFD (non-fatal mode).
ByteUnits(b, i) ==
  LET c == b[i]
      n == SeqLen(b, i)
  IN
  IF n = 1 THEN <<c>>
  ELSE IF n = 2 THEN <<(c - 192) * 64 + (b[i + 1] - 128)>>
  ELSE IF n = 3
    THEN <<(c - 224) * 4096 + (b[i + 1] - 128) * 64 + (b[i + 2] - 128)>>
  ELSE IF n = 4
    THEN LET cp == (c - 240) * 262144 + (b[i + 1] - 128) * 4096
                   + (b[i + 2] - 128) * 64 + (b[i + 3] - 128)
         IN <<55296 + ((cp - 65536) \div 1024), 56320 + ((cp - 65536) % 1024)>>
  ELSE IF IsCont(b, i) /\ \E k \in 1..3 : SeqLen(b, i - k) > k THEN <<>>
  ELSE <<65533>>

\* The units of the bytes of b from lo on: a run of ASCII bytes is its own
\* decoding.
RECURSIVE DecodeFrom(_, _)
DecodeFrom(b, lo) ==
  LET i == FirstNonAscii(b, lo) IN
  IF i > Len(b) THEN SubSeq(b, lo, Len(b))
  ELSE SubSeq(b, lo, i - 1) \o ByteUnits(b, i) \o DecodeFrom(b, i + 1)

TextDecode(b) == DecodeFrom(b, 1)

(***************************************************************************)
(* JSON.stringify and JSON.parse of a string                               *)
(***************************************************************************)
\* The lowercase hexadecimal digit of n, and the value of a digit.
Hex(n) == IF n < 10 THEN 48 + n ELSE 87 + n

HexVal(c) ==
  IF c >= 48 /\ c <= 57 THEN c - 48
  ELSE IF c >= 97 /\ c <= 102 THEN c - 87
  ELSE c - 55

\* The escape \uXXXX of the unit u.
UnicodeEscape(u) ==
  <<92, 117, Hex(u \div 4096), Hex((u \div 256) % 16), Hex((u \div 16) % 16),
    Hex(u % 16)>>

\* The escapes of two characters: \b \t \n \f \r \" \\
ShortEscapes == {<<8, 98>>, <<9, 116>>, <<10, 110>>, <<12, 102>>, <<13, 114>>,
                 <<34, 34>>, <<92, 92>>}

\* A JSON.stringify that writes an unpaired surrogate as it is.
EscapeUnitKeepsSurrogates(s, i) ==
  LET u == s[i] IN
  IF \E e \in ShortEscapes : e[1] = u
    THEN <<92, (CHOOSE e \in ShortEscapes : e[1] = u)[2]>>
  ELSE IF u < 32 THEN UnicodeEscape(u)
  ELSE <<u>>

\* JSON.stringify (QuoteJSONString), the units that unit i of s gives: the
\* short escapes, \uXXXX for the other control characters and for a
\* surrogate that is not part of a pair, the unit itself otherwise.
EscapeUnit(s, i) ==
  LET u == s[i] IN
  IF \E e \in ShortEscapes : e[1] = u
    THEN <<92, (CHOOSE e \in ShortEscapes : e[1] = u)[2]>>
  ELSE IF u < 32 THEN UnicodeEscape(u)
  ELSE IF IsHighSurrogate(u) /\ ~(i < Len(s) /\ IsLowSurrogate(s[i + 1]))
    THEN UnicodeEscape(u)
  ELSE IF IsLowSurrogate(u) /\ ~(i > 1 /\ IsHighSurrogate(s[i - 1]))
    THEN UnicodeEscape(u)
  ELSE <<u>>

RECURSIVE EscapeFrom(_, _)
EscapeFrom(s, i) ==
  IF i > Len(s) THEN <<>> ELSE EscapeUnit(s, i) \o EscapeFrom(s, i + 1)

\* JSON.stringify of the string s: the escaped units between two quotes.
stringify(s) == <<34>> \o EscapeFrom(s, 1) \o <<34>>

\* JSON.parse, the units of the JSON string u from index i up to its closing
\* quote.
RECURSIVE UnescapeFrom(_, _)
UnescapeFrom(u, i) ==
  IF i >= Len(u) THEN <<>>
  ELSE IF u[i] # 92 THEN <<u[i]>> \o UnescapeFrom(u, i + 1)
  ELSE IF u[i + 1] = 117
    THEN <<HexVal(u[i + 2]) * 4096 + HexVal(u[i + 3]) * 256
             + HexVal(u[i + 4]) * 16 + HexVal(u[i + 5])>>
         \o UnescapeFrom(u, i + 6)
  ELSE <<IF \E e \in ShortEscapes : e[2] = u[i + 1]
           THEN (CHOOSE e \in ShortEscapes : e[2] = u[i + 1])[1]
           ELSE u[i + 1]>>
       \o UnescapeFrom(u, i + 2)

\* JSON.parse of the JSON string u.
parse(u) == UnescapeFrom(u, 2)

\* The bytes written for the strings of the model and the strings read from
\* them, computed once.
EncodeMemo == [t \in Strings |-> TextEncode(stringify(t))]

DecodeMemo ==
  [b \in {EncodeMemo[t] : t \in Strings} |-> parse(TextDecode(b))]

\* encoder.encode(JSON.stringify(s)) and JSON.parse(decoder.decode(b)) for a
\* string member.
EncodeString(s) ==
  IF s \in Strings THEN EncodeMemo[s] ELSE TextEncode(stringify(s))

DecodeString(b) ==
  IF b \in DOMAIN DecodeMemo THEN DecodeMemo[b] ELSE parse(TextDecode(b))

\* String.prototype.toLowerCase on the code units the model uses (ASCII
\* letters are the only cased units among them).
toLowerCase(s) ==
  [i \in 1..Len(s) |-> IF s[i] >= 65 /\ s[i] <= 90 THEN s[i] + 32 ELSE s[i]]

(***************************************************************************)
(* The seed records of handleGetReviews                                    *)
(***************************************************************************)
seed ==
  << [name |-> SeedName1, text |-> SeedText1, rating |-> 5],
     [name |-> <<>>, text |-> SeedText2, rating |-> 5],
     [name |-> <<>>, text |-> SeedText3, rating |-> 5] >>

(***************************************************************************)
(* The codec of utils/kv.ts                                                *)
(***************************************************************************)
\* A Review object is a record with fields name, text, rating and, when it
\* was made by handlePostReview, date.  JSON.stringify writes the fields the
\* object has, every string quoted; TextEncoder turns the text into UTF-8
\* bytes.
EncodeReview(r) ==
  IF "date" \in DOMAIN r
    THEN [name |-> EncodeString(r.name), text |-> EncodeString(r.text),
          rating |-> r.rating, date |-> r.date]
    ELSE [name |-> EncodeString(r.name), text |-> EncodeString(r.text),
          rating |-> r.rating]

DecodeReview(e) ==
  IF "date" \in DOMAIN e
    THEN [name |-> DecodeString(e.name), text |-> DecodeString(e.text),
          rating |-> e.rating, date |-> e.date]
    ELSE [name |-> DecodeString(e.name), text |-> DecodeString(e.text),
          rating |-> e.rating]

\* The value of the key "reviews": absent, bytes that are the JSON of an
\* array of reviews, or bytes that JSON.parse rejects.
Absent == [tag |-> "absent", items |-> <<>>]

Malformed == [tag |-> "malformed", items |-> <<>>]

\* The bytes putJsonUtf8 hands to kv.put.
putJsonUtf8(obj) ==
  [tag |-> "json", items |-> [i \in 1..Len(obj) |-> EncodeReview(obj[i])]]

\* getJsonUtf8 after a kv.get that returned the value v: "null" for an absent
\* key, "throw" when JSON.parse throws, else the parsed array.
getJsonUtf8(v) ==
  IF v.tag = "absent" THEN [out |-> "null", val |-> <<>>]
  ELSE IF v.tag = "malformed" THEN [out |-> "throw", val |-> <<>>]
  ELSE [out |-> "ok", val |-> [i \in 1..Len(v.items) |-> DecodeReview(v.items[i])]]

(***************************************************************************)
(* Requests                                                                *)
(***************************************************************************)
\* Bodies of POST /reviews: a JSON object is the record of the fields it has.
\* The second carries a rating outside 1..5 and a date of the client's, 0,
\* which no server clock gives.
AppendBodies ==
  { [name |-> NameLower, text |-> TextEmoji],
    [name |-> NameUpper, text |-> TextEmoji, rating |-> 0, date |-> 0],
    [text |-> TextEmoji],
    [name |-> <<>>, text |-> TextEmoji],
    [name |-> NameLower],
    [name |-> NameLower, text |-> <<>>] }

\* Bodies of DELETE /reviews.
DeleteBodies ==
  { [name |-> NameUpper],
    [name |-> NameSpace],
    [name |-> NameSeedLower],
    [name |-> <<>>],
    [text |-> TextEmoji] }

\* The body of a request that carries none.
NoBody == [none |-> TRUE]

\* config.ts
GH_MODELS_URL == "https://models.github.ai/inference/chat/completions"

GH_API_VERSION == "2022-11-28"

DEFAULT_MODEL == "microsoft/phi-4-mini-instruct"

\* env.GITHUB_MODELS_TOKEN, the credential the server holds.
GITHUB_MODELS_TOKEN == "secret-of-the-server"

\* JSON values a client posts to the proxy: an object is the record of its
\* members, an array the sequence of its items.
JsonObject(m) == [type |-> "object", members |-> m]

JsonArray(a) == [type |-> "array", members |-> a]

JsonNull == [type |-> "null", members |-> <<>>]

\* Bodies of POST on a path other than /reviews: without a model, with one,
\* with an empty one, the value null and an array.
ProxyBodies ==
  { JsonObject([messages |-> "hi"]),
    JsonObject([model |-> "openai/gpt-4o", messages |-> "hi"]),
    JsonObject([model |-> "", messages |-> "hi"]),
    JsonNull,
    JsonArray(<<"hi">>) }

\* auth is the Authorization header the client sent, "none" without one.
Request(m, p, ok, b) ==
  [method |-> m, path |-> p, parsable |-> ok, body |-> b, auth |-> "none"]

\* The request q sent with the Authorization header a.
WithAuth(q, a) == [q EXCEPT !.auth = a]

NoRequest == Request("", "", FALSE, NoBody)

\* The requests that run concurrently in the model: List, the Appends that
\* pass validation and the DeleteByNames that can match a stored name.
StoreRequests ==
  { Request("GET", "/reviews", FALSE, NoBody) }
  \cup { Request("POST", "/reviews", TRUE, b) :
           b \in { c \in AppendBodies : {"name", "text"} \subseteq DOMAIN c
                                        /\ c.name # <<>> /\ c.text # <<>> } }
  \cup { Request("DELETE", "/reviews", TRUE, b) :
           b \in { c \in DeleteBodies :
                     "name" \in DOMAIN c /\ c.name \in {NameUpper, NameSeedLower} } }

\* The requests the clients send; parsable is FALSE for a body that is not
\* JSON text.
Requests ==
  { Request("GET", "/reviews", FALSE, NoBody) }
  \cup { Request("POST", "/reviews", TRUE, b) : b \in AppendBodies }
  \cup { Request("POST", "/reviews", FALSE, NoBody) }
  \cup { Request("DELETE", "/reviews", TRUE, b) : b \in DeleteBodies }
  \cup { Request("DELETE", "/reviews", FALSE, NoBody) }
  \cup { Request("POST", "/chat", TRUE, JsonObject([messages |-> "hi"])),
         Request("OPTIONS", "/reviews", FALSE, NoBody),
         Request("GET", "/", FALSE, NoBody),
         Request("GET", "/health", FALSE, NoBody),
         Request("PUT", "/reviews", TRUE, NoBody) }

\* The requests to the proxy: every body, a text that is not JSON, and a
\* request that carries an Authorization header of the client.
ProxyRequests ==
  { Request("POST", "/chat", TRUE, b) : b \in ProxyBodies }
  \cup { Request("POST", "/chat", FALSE, NoBody),
         WithAuth(Request("POST", "/v1/chat", TRUE, JsonObject([messages |-> "hi"])),
                  "Bearer key-of-the-client") }

\* One request for every method and path of the model.
Methods == {"GET", "POST", "DELETE", "OPTIONS", "PUT"}

Paths == {"/", "/reviews", "/chat"}

RouteRequests ==
  { Request(m, p, TRUE,
            IF p = "/reviews" THEN [name |-> NameUpper, text |-> TextEmoji]
            ELSE JsonObject([messages |-> "hi"])) :
      m \in Methods, p \in Paths }

\* The requests of every route and every kind of response: the above, the
\* requests to /reviews that are answered 400 and 500, and a path the
\* router does not know.
AllRequests ==
  ProxyRequests \cup RouteRequests
  \cup { Request("POST", "/reviews", TRUE, [text |-> TextEmoji]),
         Request("POST", "/reviews", FALSE, NoBody),
         Request("DELETE", "/reviews", TRUE, [name |-> <<>>]),
         Request("DELETE", "/reviews", TRUE, [name |-> NameSpace]),
         Request("DELETE", "/reviews", FALSE, NoBody),
         Request("GET", "/health", FALSE, NoBody) }

\* A check for the missing field only.
FalsyMissingOnly(b, f) == f \notin DOMAIN b

\* !body.f of JavaScript for a string field: the field is missing or "".
Falsy(b, f) == f \notin DOMAIN b \/ b[f] = <<>>

(***************************************************************************)
(* Responses                                                               *)
(***************************************************************************)
\* Headers are functions from header names to values; <<>> is no header.
NoHeaders == <<>>

\* A cors() without DELETE among the methods.
corsWithoutDelete ==
  ("Access-Control-Allow-Origin" :> "*")
  @@ ("Access-Control-Allow-Headers"
        :> "Content-Type, Authorization, X-GitHub-Api-Version")
  @@ ("Access-Control-Allow-Methods" :> "GET,POST,OPTIONS")

\* utils/cors cors()
cors ==
  ("Access-Control-Allow-Origin" :> "*")
  @@ ("Access-Control-Allow-Headers"
        :> "Content-Type, Authorization, X-GitHub-Api-Version")
  @@ ("Access-Control-Allow-Methods" :> "GET,POST,OPTIONS,DELETE")

\* { "Content-Type": t, ...cors() }: a later member replaces an earlier one.
WithContentType(t, h) == h @@ ("Content-Type" :> t)

\* kind: "json" for utils/response json(), "text" and "empty" for the
\* router's own Response objects, "upstream" for the proxied response,
\* "unhandled" when an exception leaves worker.fetch, "none" while pending.
\* text is the body of a "text" or "upstream" response, info the members of
\* the health check.
Response(st, k, h, o, rs, rv, n, e) ==
  [status |-> st, kind |-> k, headers |-> h, ok |-> o, reviews |-> rs,
   review |-> rv, removed |-> n, error |-> e, text |-> "", info |-> <<>>]

NoResponse == Response(0, "none", NoHeaders, FALSE, <<>>, <<>>, 0, "")

json(o, st, rs, rv, n, e) ==
  Response(st, "json",
           WithContentType("application/json; charset=utf-8", cors),
           o, rs, rv, n, e)

jsonError(st, e) == json(FALSE, st, <<>>, <<>>, 0, e)

\* An exception leaves worker.fetch: the worker returns no response.
Unhandled == Response(0, "unhandled", NoHeaders, FALSE, <<>>, <<>>, 0, "exception")

\* worker.fetch: new Response(null, { status: 204, headers: cors() })
Preflight == Response(204, "empty", cors, FALSE, <<>>, <<>>, 0, "")

\* worker.fetch: new Response("Not Found", { status: 404, headers: cors() })
NotFound ==
  [Response(404, "text", cors, FALSE, <<>>, <<>>, 0, "")
     EXCEPT !.text = "Not Found"]

\* worker.fetch: the health check.
Health ==
  [json(TRUE, 200, <<>>, <<>>, 0, "")
     EXCEPT !.info = [proxy |-> "github-models", to |-> GH_MODELS_URL,
                      default_model |-> DEFAULT_MODEL,
                      version |-> GH_API_VERSION]]

(***************************************************************************)
(* State                                                                   *)
(***************************************************************************)
VARIABLES
  kv,       \* the value of the key "reviews" in env.REVIEWS_DB
  now,      \* the last time new Date() returned
  pc,       \* per request: the await it is suspended at
  req,      \* per request: the request
  loc,      \* per request: the handler's locals
  resp,     \* per request: the response of worker.fetch
  io,       \* per request: store reads, store writes and upstream calls
            \* issued, and how many of them failed
  hist,     \* per request: the writes taken when it arrived, the stored
            \* value and the writes taken when it read
  ver,      \* the number of writes the store has taken
  upstream  \* per request: the request sent to GH_MODELS_URL and its reply

vars == <<kv, now, pc, req, loc, resp, io, hist, ver, upstream>>

NoLocals == [stored |-> <<>>, filtered |-> <<>>, newReview |-> <<>>]

NoIo == [reads |-> 0, writes |-> 0, calls |-> 0, failed |-> 0]

NoHist == [ver0 |-> 0, seen |-> Absent, seenVer |-> 0]

\* No upstream request sent, no reply received.
NoCall == [request |-> <<>>, reply |-> <<>>]

Active(r) == pc[r] \notin {"idle", "done"}

(***************************************************************************)
(* worker.fetch: the router                                                *)
(***************************************************************************)
\* A router that tests for POST before it tests for /reviews.
RoutePostFirst(q) ==
  IF q.method = "OPTIONS" THEN "preflight"
  ELSE IF q.method = "GET" /\ q.path = "/" THEN "health"
  ELSE IF q.method = "POST" THEN "proxy"
  ELSE IF q.path = "/reviews" /\ q.method = "GET" THEN "list"
  ELSE IF q.path = "/reviews" /\ q.method = "DELETE" THEN "delete"
  ELSE "notfound"

\* worker.fetch, lines 519-544: the tests in the order of the code.
Route(q) ==
  IF q.method = "OPTIONS" THEN "preflight"
  ELSE IF q.method = "GET" /\ q.path = "/" THEN "health"
  ELSE IF q.path = "/reviews" /\ q.method = "GET" THEN "list"
  ELSE IF q.path = "/reviews" /\ q.method = "POST" THEN "append"
  ELSE IF q.path = "/reviews" /\ q.method = "DELETE" THEN "delete"
  ELSE IF q.method = "POST" THEN "proxy"
  ELSE "notfound"

(***************************************************************************)
(* The synchronous parts of the review handlers                            *)
(***************************************************************************)
\* A seed check that forgets the empty list, and one that always seeds.
NeedsSeedNullOnly(g) == g.out = "null"

NeedsSeedAlways(g) == TRUE

\* handleGetReviews: !stored || stored.length === 0, on the result of
\* getJsonUtf8.
NeedsSeed(g) == g.out = "null" \/ Len(g.val) = 0

\* (await getJsonUtf8(...)) || []
OrEmpty(g) == IF g.out = "null" THEN <<>> ELSE g.val

\* A record that takes the date of the body when there is one.
NewReviewClientDate(b, d) ==
  [name |-> b.name, text |-> b.text,
   rating |-> IF "rating" \in DOMAIN b THEN b.rating ELSE 5,
   date |-> IF "date" \in DOMAIN b THEN b.date ELSE d]

\* handlePostReview: the record built from a body that passed validation.
NewReview(b, d) ==
  [name |-> b.name, text |-> b.text,
   rating |-> IF "rating" \in DOMAIN b THEN b.rating ELSE 5,
   date |-> d]

\* stored.push(newReview) in place of unshift.
UnshiftAtEnd(rec, stored) == stored \o <<rec>>

\* stored.unshift(newReview)
Unshift(rec, stored) == <<rec>> \o stored

\* A comparison without toLowerCase.
KeepsCaseSensitive(r, n) == r.name # n

\* reviews.filter((r) => r.name?.toLowerCase() !== body.name!.toLowerCase())
Keeps(r, n) == toLowerCase(r.name) # toLowerCase(n)

\* A filter that drops the first match only.
RECURSIVE FilterFirstOnly(_, _)
FilterFirstOnly(reviews, n) ==
  IF reviews = <<>> THEN <<>>
  ELSE IF Keeps(Head(reviews), n)
    THEN <<Head(reviews)>> \o FilterFirstOnly(Tail(reviews), n)
  ELSE Tail(reviews)

Filter(reviews, n) == SelectSeq(reviews, LAMBDA r : Keeps(r, n))

\* No not-found check at all.
NothingRemovedNever(filtered, reviews) == FALSE

\* A not-found check on the filtered list being empty.
NothingRemovedIfEmpty(filtered, reviews) == Len(filtered) = 0

\* filtered.length === reviews.length
NothingRemoved(filtered, reviews) == Len(filtered) = Len(reviews)

(***************************************************************************)
(* The synchronous parts of handleGitHubProxy                              *)
(***************************************************************************)
\* Lines 12-19: the parsed body, {} when the text is not JSON.
ParsedOrEmpty(q) == IF q.parsable THEN q.body ELSE JsonObject(<<>>)

\* Line 21 throws a TypeError when data is null: it has no properties.
ModelThrows(data) == data.type = "null"

\* !data.model: the member is missing or falsy (""); an array has no such
\* member.
NoModel(data) ==
  \/ data.type = "array"
  \/ "model" \notin DOMAIN data.members
  \/ data.members.model = ""

\* Line 21 and JSON.stringify(data) at line 31: an object gets the member;
\* the property set on an array is not among the items JSON.stringify
\* writes.
WithModel(data) ==
  IF data.type = "object" /\ NoModel(data)
    THEN JsonObject(("model" :> DEFAULT_MODEL) @@ data.members)
    ELSE data

\* Headers that take the Authorization header of the client when there is
\* one.
UpstreamHeadersForwarded(q) ==
  ("Accept" :> <<"application/vnd.github+json">>)
  @@ ("Authorization" :> IF q.auth = "none"
                           THEN <<"Bearer ", GITHUB_MODELS_TOKEN>>
                           ELSE <<q.auth>>)
  @@ ("X-GitHub-Api-Version" :> <<GH_API_VERSION>>)
  @@ ("Content-Type" :> <<"application/json">>)

\* Lines 25-30: the headers of the upstream request made for the request q;
\* a header value is the sequence of the strings it is made of.
UpstreamHeaders(q) ==
  ("Accept" :> <<"application/vnd.github+json">>)
  @@ ("Authorization" :> <<"Bearer ", GITHUB_MODELS_TOKEN>>)
  @@ ("X-GitHub-Api-Version" :> <<GH_API_VERSION>>)
  @@ ("Content-Type" :> <<"application/json">>)

\* Lines 23-32: the request fetch sends upstream for the request q.
UpstreamRequest(q) ==
  [url |-> GH_MODELS_URL, method |-> "POST", headers |-> UpstreamHeaders(q),
   body |-> WithModel(ParsedOrEmpty(q))]

\* The replies of the upstream in the model: with and without a
\* Content-Type header, and with a status that allows no body.
UpstreamReplies ==
  { [status |-> 200, headers |-> ("Content-Type" :> "text/event-stream"),
     text |-> "data: {}"],
    [status |-> 401, headers |-> ("Content-Type" :> "application/json"),
     text |-> "{\"error\":\"Unauthorized\"}"],
    [status |-> 200, headers |-> NoHeaders, text |-> "{}"],
    [status |-> 204, headers |-> NoHeaders, text |-> ""] }

\* new Response(body, { status }) throws a TypeError for a body that is not
\* null with one of these statuses.
NullBodyStatus(st) == st \in {101, 204, 205, 304}

\* gh.headers.get("Content-Type") ?? "application/json"
ContentTypeOf(rep) ==
  IF "Content-Type" \in DOMAIN rep.headers
    THEN rep.headers["Content-Type"]
    ELSE "application/json"

\* Lines 34-42: the response made from the reply rep of the upstream.
Passthrough(rep) ==
  [Response(rep.status, "upstream", WithContentType(ContentTypeOf(rep), cors),
            rep.status = 200, <<>>, <<>>, 0, "")
     EXCEPT !.text = rep.text]

(***************************************************************************)
(* Steps                                                                   *)
(***************************************************************************)
\* The response of request r is returned; its locals are gone.
Finish(r, rsp) ==
  /\ resp' = [resp EXCEPT ![r] = rsp]
  /\ pc' = [pc EXCEPT ![r] = "done"]
  /\ loc' = [loc EXCEPT ![r] = NoLocals]

\* Request r is suspended at the await named by p.
Suspend(r, p) ==
  /\ pc' = [pc EXCEPT ![r] = p]
  /\ UNCHANGED resp

\* A dispatch whose review handlers answer a body that is not JSON with 400.
DispatchInvalidJsonIs400(r, q, d) ==
  LET route == Route(q) IN
  CASE route = "preflight" ->
         Finish(r, Preflight)
         /\ UNCHANGED now
    [] route = "health" ->
         Finish(r, Health)
         /\ UNCHANGED now
    [] route = "notfound" ->
         Finish(r, NotFound)
         /\ UNCHANGED now
    [] route = "list" -> Suspend(r, "get_read") /\ UNCHANGED <<loc, now>>
    [] route = "proxy" ->
         IF ModelThrows(ParsedOrEmpty(q))
           THEN Finish(r, jsonError(500, "Cannot read properties of null"))
                /\ UNCHANGED now
         ELSE Suspend(r, "proxy_call") /\ UNCHANGED <<loc, now>>
    [] route = "append" ->
         IF ~q.parsable
           THEN Finish(r, jsonError(400, "Invalid JSON"))
                /\ UNCHANGED now
         ELSE IF Falsy(q.body, "name") \/ Falsy(q.body, "text")
           THEN Finish(r, jsonError(400, "Missing name or text"))
                /\ UNCHANGED now
         ELSE /\ Suspend(r, "post_read")
              /\ loc' = [loc EXCEPT ![r].newReview = <<NewReview(q.body, d)>>]
              /\ now' = d
    [] route = "delete" ->
         IF ~q.parsable
           THEN Finish(r, jsonError(400, "Invalid JSON"))
                /\ UNCHANGED now
         ELSE IF Falsy(q.body, "name")
           THEN Finish(r, jsonError(400, "Missing name field"))
                /\ UNCHANGED now
         ELSE Suspend(r, "del_read") /\ UNCHANGED <<loc, now>>

\* What the router and the handler's code up to its first store or upstream
\* await do with the request q that arrives in slot r at time d.
Dispatch(r, q, d) ==
  LET route == Route(q) IN
  CASE route = "preflight" ->
         Finish(r, Preflight)
         /\ UNCHANGED now
    [] route = "health" ->
         Finish(r, Health)
         /\ UNCHANGED now
    [] route = "notfound" ->
         Finish(r, NotFound)
         /\ UNCHANGED now
    [] route = "list" -> Suspend(r, "get_read") /\ UNCHANGED <<loc, now>>
    [] route = "proxy" ->
         IF ModelThrows(ParsedOrEmpty(q))
           THEN Finish(r, jsonError(500, "Cannot read properties of null"))
                /\ UNCHANGED now
         ELSE Suspend(r, "proxy_call") /\ UNCHANGED <<loc, now>>
    [] route = "append" ->
         IF ~q.parsable
           THEN Finish(r, jsonError(500, "Server error"))
                /\ UNCHANGED now
         ELSE IF Falsy(q.body, "name") \/ Falsy(q.body, "text")
           THEN Finish(r, jsonError(400, "Missing name or text"))
                /\ UNCHANGED now
         ELSE /\ Suspend(r, "post_read")
              /\ loc' = [loc EXCEPT ![r].newReview = <<NewReview(q.body, d)>>]
              /\ now' = d
    [] route = "delete" ->
         IF ~q.parsable
           THEN Finish(r, jsonError(500, "Unexpected token"))
                /\ UNCHANGED now
         ELSE IF Falsy(q.body, "name")
           THEN Finish(r, jsonError(400, "Missing name field"))
                /\ UNCHANGED now
         ELSE Suspend(r, "del_read") /\ UNCHANGED <<loc, now>>

\* A request of the set Q arrives in slot r: worker.fetch runs up to the
\* first await of I/O.  Slots are taken in order.
Arrive(r, Q) ==
  /\ pc[r] = "idle"
  /\ IF r = 1 THEN TRUE ELSE pc[r - 1] # "idle"
  /\ \E q \in Q, d \in {now, now + 1} :
       /\ req' = [req EXCEPT ![r] = q]
       /\ hist' = [hist EXCEPT ![r].ver0 = ver]
       /\ Dispatch(r, q, d)
  /\ UNCHANGED <<kv, io, ver, upstream>>

\* A store request arrives while others may be in flight.
Receive(r) == Arrive(r, StoreRequests)

\* Any request arrives when no other request is in flight.
ReceiveSeq(r) == (\A x \in Reqs : ~Active(x)) /\ Arrive(r, Requests)

\* Any request, to the store or to the proxy, arrives when no other request
\* is in flight.
ReceiveAll(r) == (\A x \in Reqs : ~Active(x)) /\ Arrive(r, AllRequests)

\* Request r issues a store read, a store write or an upstream call (f),
\* which succeeds or fails (ok).
Issue(r, f, ok) ==
  io' = [io EXCEPT ![r][f] = @ + 1, ![r].failed = @ + (IF ok THEN 0 ELSE 1)]

\* Request r has read the store.
Sees(r) == hist' = [hist EXCEPT ![r].seen = kv, ![r].seenVer = ver]

\* handleGetReviews, line 10: await getJsonUtf8 and the code up to the next
\* await.  kv.get rejects (ok = FALSE) or returns the stored value; an
\* exception here leaves the handler, which has no try.
GetRead(r) ==
  /\ pc[r] = "get_read"
  /\ \E ok \in BOOLEAN :
       /\ Issue(r, "reads", ok)
       /\ LET g == getJsonUtf8(kv) IN
            IF ~ok \/ g.out = "throw"
              THEN Finish(r, Unhandled)
            ELSE IF NeedsSeed(g)
              THEN Suspend(r, "get_write")
                   /\ loc' = [loc EXCEPT ![r].stored = seed]
            ELSE Finish(r, json(TRUE, 200, g.val, <<>>, 0, ""))
  /\ Sees(r)
  /\ UNCHANGED <<kv, now, req, ver, upstream>>

\* handleGetReviews, lines 31-32: await putJsonUtf8(seed), then the response.
GetWrite(r) ==
  /\ pc[r] = "get_write"
  /\ \E ok \in BOOLEAN :
       /\ Issue(r, "writes", ok)
       /\ IF ok
            THEN /\ kv' = putJsonUtf8(loc[r].stored)
                 /\ ver' = ver + 1
                 /\ Finish(r, json(TRUE, 200, loc[r].stored, <<>>, 0, ""))
            ELSE Finish(r, Unhandled) /\ UNCHANGED <<kv, ver>>
  /\ UNCHANGED <<now, req, hist, upstream>>

\* handlePostReview, lines 57-58: the read and the unshift.
PostRead(r) ==
  /\ pc[r] = "post_read"
  /\ \E ok \in BOOLEAN :
       /\ Issue(r, "reads", ok)
       /\ LET g == getJsonUtf8(kv) IN
            IF ~ok \/ g.out = "throw"
              THEN Finish(r, jsonError(500, "Server error"))
              ELSE /\ Suspend(r, "post_write")
                   /\ loc' = [loc EXCEPT ![r].stored =
                                Unshift(loc[r].newReview[1], OrEmpty(g))]
  /\ Sees(r)
  /\ UNCHANGED <<kv, now, req, ver, upstream>>

\* A write that prepends to what is stored at the time of the write.
PostWriteOnCurrent(r) ==
  /\ pc[r] = "post_write"
  /\ \E ok \in BOOLEAN :
       /\ Issue(r, "writes", ok)
       /\ IF ok
            THEN /\ kv' = putJsonUtf8(Unshift(loc[r].newReview[1],
                                              OrEmpty(getJsonUtf8(kv))))
                 /\ ver' = ver + 1
                 /\ Finish(r, json(TRUE, 200, <<>>, loc[r].newReview, 0, ""))
            ELSE Finish(r, jsonError(500, "Server error"))
                 /\ UNCHANGED <<kv, ver>>
  /\ UNCHANGED <<now, req, hist, upstream>>

\* handlePostReview, lines 60-62: the write and the response.
PostWrite(r) ==
  /\ pc[r] = "post_write"
  /\ \E ok \in BOOLEAN :
       /\ Issue(r, "writes", ok)
       /\ IF ok
            THEN /\ kv' = putJsonUtf8(loc[r].stored)
                 /\ ver' = ver + 1
                 /\ Finish(r, json(TRUE, 200, <<>>, loc[r].newReview, 0, ""))
            ELSE Finish(r, jsonError(500, "Server error"))
                 /\ UNCHANGED <<kv, ver>>
  /\ UNCHANGED <<now, req, hist, upstream>>

\* handleDeleteReview, lines 78-85: the read, the filter and the 404.
DelRead(r) ==
  /\ pc[r] = "del_read"
  /\ \E ok \in BOOLEAN :
       /\ Issue(r, "reads", ok)
       /\ LET g == getJsonUtf8(kv)
              reviews == OrEmpty(g)
              filtered == Filter(reviews, req[r].body.name)
          IN
            IF ~ok THEN Finish(r, jsonError(500, "KV error"))
            ELSE IF g.out = "throw"
              THEN Finish(r, jsonError(500, "Unexpected token"))
            ELSE IF NothingRemoved(filtered, reviews)
              THEN Finish(r, jsonError(404, "No reviews found"))
            ELSE /\ Suspend(r, "del_write")
                 /\ loc' = [loc EXCEPT ![r].stored = reviews,
                                       ![r].filtered = filtered]
  /\ Sees(r)
  /\ UNCHANGED <<kv, now, req, ver, upstream>>

\* handleDeleteReview, lines 87-92: the write and the response.
DelWrite(r) ==
  /\ pc[r] = "del_write"
  /\ \E ok \in BOOLEAN :
       /\ Issue(r, "writes", ok)
       /\ IF ok
            THEN /\ kv' = putJsonUtf8(loc[r].filtered)
                 /\ ver' = ver + 1
                 /\ Finish(r, json(TRUE, 200, <<>>, <<>>,
                                   Len(loc[r].stored) - Len(loc[r].filtered),
                                   ""))
            ELSE Finish(r, jsonError(500, "KV error")) /\ UNCHANGED <<kv, ver>>
  /\ UNCHANGED <<now, req, hist, upstream>>

\* A proxy without its try: a call that fails leaves the handler as an
\* exception.
ProxyCallUncaught(r) ==
  /\ pc[r] = "proxy_call"
  /\ \E ok \in BOOLEAN :
       /\ Issue(r, "calls", ok)
       /\ IF ok
            THEN \E rep \in UpstreamReplies :
                   /\ upstream' = [upstream EXCEPT ![r] =
                        [request |-> <<UpstreamRequest(req[r])>>,
                         reply |-> <<rep>>]]
                   /\ IF NullBodyStatus(rep.status)
                        THEN Finish(r, Unhandled)
                        ELSE Finish(r, Passthrough(rep))
            ELSE /\ upstream' = [upstream EXCEPT ![r] =
                      [request |-> <<UpstreamRequest(req[r])>>,
                       reply |-> <<>>]]
                 /\ Finish(r, Unhandled)
  /\ UNCHANGED <<kv, now, req, hist, ver>>

\* handleGitHubProxy, lines 23-46: await fetch(GH_MODELS_URL, ...), await
\* gh.text() and the response.  The upstream replies (ok), or the call fails
\* in transport.
ProxyCall(r) ==
  /\ pc[r] = "proxy_call"
  /\ \E ok \in BOOLEAN :
       /\ Issue(r, "calls", ok)
       /\ IF ok
            THEN \E rep \in UpstreamReplies :
                   /\ upstream' = [upstream EXCEPT ![r] =
                        [request |-> <<UpstreamRequest(req[r])>>,
                         reply |-> <<rep>>]]
                   /\ IF NullBodyStatus(rep.status)
                        THEN Finish(r, jsonError(500, "Response with null body status"))
                        ELSE Finish(r, Passthrough(rep))
            ELSE /\ upstream' = [upstream EXCEPT ![r] =
                      [request |-> <<UpstreamRequest(req[r])>>,
                       reply |-> <<>>]]
                 /\ Finish(r, jsonError(500, "fetch failed"))
  /\ UNCHANGED <<kv, now, req, hist, ver>>

(***************************************************************************)
(* The codec on its own: putJsonUtf8 on a collection, then getJsonUtf8     *)
(***************************************************************************)
\* Records whose names and texts hold characters of one, two, three and
\* four bytes, surrogates that are not part of a pair, characters JSON
\* escapes, the boundaries of the encoded lengths, a text that reads as an
\* escape, and empty strings.
CodecReviews ==
  { [name |-> <<233>>, text |-> TextEmoji, rating |-> 5],
    [name |-> <<55357>>, text |-> <<56842, 104>>, rating |-> 0, date |-> 1],
    [name |-> <<34, 92, 10>>, text |-> <<1, 127, 128>>, rating |-> 5],
    [name |-> <<8364>>, text |-> <<2047, 2048, 65535>>, rating |-> 5],
    [name |-> NameLower, text |-> <<92, 117, 100, 56, 51, 100>>,
     rating |-> 5],
    [name |-> <<>>, text |-> <<>>, rating |-> 5] }

CodecCollections ==
  UNION { [1..n -> CodecReviews] : n \in 0..MaxCodecLen }

\* putJsonUtf8(env.REVIEWS_DB, "reviews", c) for a collection c, when no
\* request is in flight.
CodecPut(r) ==
  /\ pc[r] = "idle"
  /\ IF r = 1 THEN TRUE ELSE pc[r - 1] # "idle"
  /\ \A x \in Reqs : ~Active(x)
  /\ \E c \in CodecCollections :
       /\ kv' = putJsonUtf8(c)
       /\ loc' = [loc EXCEPT ![r].stored = c]
  /\ ver' = ver + 1
  /\ Issue(r, "writes", TRUE)
  /\ Suspend(r, "codec_get")
  /\ UNCHANGED <<now, req, hist, upstream>>

\* getJsonUtf8(env.REVIEWS_DB, "reviews") after it: the result is kept.
CodecGet(r) ==
  /\ pc[r] = "codec_get"
  /\ Issue(r, "reads", TRUE)
  /\ loc' = [loc EXCEPT ![r].filtered = <<getJsonUtf8(kv)>>]
  /\ Suspend(r, "codec_return")
  /\ UNCHANGED <<kv, now, req, hist, ver, upstream>>

\* The result is dropped.
CodecReturn(r) ==
  /\ pc[r] = "codec_return"
  /\ Finish(r, NoResponse)
  /\ UNCHANGED <<kv, now, req, io, hist, ver, upstream>>

(***************************************************************************)
(* Specifications                                                          *)
(***************************************************************************)
\* Records handlePostReview made earlier.
OldLower == [name |-> NameLower, text |-> TextEmoji, rating |-> 5, date |-> 1]

OldUpper == [name |-> NameUpper, text |-> TextEmoji, rating |-> 4, date |-> 2]

\* Values the worker has left under the key before the requests of the model
\* arrive: never written, emptied by deletes, seeded, appended to.
StoredBefore ==
  { Absent, putJsonUtf8(<<>>), putJsonUtf8(seed),
    putJsonUtf8(<<OldLower>> \o seed),
    putJsonUtf8(<<OldUpper, OldLower>>) }

InitRest ==
  /\ now = 2
  /\ pc = [r \in Reqs |-> "idle"]
  /\ req = [r \in Reqs |-> NoRequest]
  /\ loc = [r \in Reqs |-> NoLocals]
  /\ resp = [r \in Reqs |-> NoResponse]
  /\ io = [r \in Reqs |-> NoIo]
  /\ hist = [r \in Reqs |-> NoHist]
  /\ ver = 0
  /\ upstream = [r \in Reqs |-> NoCall]

Init ==
  /\ kv \in {Absent, putJsonUtf8(<<>>), putJsonUtf8(<<OldLower>> \o seed)}
  /\ InitRest

InitSeq == kv \in StoredBefore /\ InitRest

\* The key may also hold bytes that are not JSON (the namespace is written
\* from outside the worker too).
InitAny == kv \in StoredBefore \cup {Malformed} /\ InitRest

\* Concurrent requests on the store.
Next ==
  \E r \in Reqs :
    \/ Receive(r)
    \/ GetRead(r)
    \/ GetWrite(r)
    \/ PostRead(r)
    \/ PostWrite(r)
    \/ DelRead(r)
    \/ DelWrite(r)

Spec == Init /\ [][Next]_vars

\* All requests, one at a time.
NextSeq ==
  \E r \in Reqs :
    \/ ReceiveSeq(r)
    \/ GetRead(r)
    \/ GetWrite(r)
    \/ PostRead(r)
    \/ PostWrite(r)
    \/ DelRead(r)
    \/ DelWrite(r)
    \/ ProxyCall(r)

SpecSeq == InitSeq /\ [][NextSeq]_vars

SpecAny == InitAny /\ [][NextSeq]_vars

\* Requests on every route, one at a time.
InitAll == kv \in {Absent, putJsonUtf8(<<OldUpper, OldLower>>)} /\ InitRest

NextAll ==
  \E r \in Reqs :
    \/ ReceiveAll(r)
    \/ GetRead(r)
    \/ GetWrite(r)
    \/ PostRead(r)
    \/ PostWrite(r)
    \/ DelRead(r)
    \/ DelWrite(r)
    \/ ProxyCall(r)

SpecAll == InitAll /\ [][NextAll]_vars

\* The codec on its own.
InitCodec == kv = Absent /\ InitRest

NextCodec ==
  \E r \in Reqs :
    \/ CodecPut(r)
    \/ CodecGet(r)
    \/ CodecReturn(r)

SpecCodec == InitCodec /\ [][NextCodec]_vars

TypeOK ==
  /\ kv.tag \in {"absent", "malformed", "json"}
  /\ \A r \in Reqs : pc[r] \in {"idle", "get_read", "get_write", "post_read",
                                "post_write", "del_read", "del_write",
                                "proxy_call", "codec_get", "codec_return",
                                "done"}

(***************************************************************************)
(* Vocabulary of the properties                                            *)
(***************************************************************************)
IsList(r) == Route(req[r]) = "list"

IsAppend(r) == Route(req[r]) = "append"

IsDelete(r) == Route(req[r]) = "delete"

Done(r) == pc[r] = "done"

\* The request answered 200 with ok:true.
Acked(r) == Done(r) /\ resp[r].status = 200 /\ resp[r].ok

\* No request has arrived since request r.
Latest(r) == IF r = NumReq THEN TRUE ELSE pc[r + 1] = "idle"

\* The collection a well-formed stored value holds, empty when absent.
Collection(v) == OrEmpty(getJsonUtf8(v))

\* The collection request r saw when it read the store; in a sequential run
\* it is the collection that was stored when the request arrived.
Seen(r) == Collection(hist[r].seen)

Before(r) == Seen(r)

\* The name a DeleteByName asks for.
Query(r) == req[r].body.name

SameLetters(a, b) == toLowerCase(a) = toLowerCase(b)

(***************************************************************************)
(* C1: in a sequential run, the List that follows an acknowledged Append   *)
(* returns the record Append returned at position 0, followed by the       *)
(* records stored before the Append in their order.                        *)
(***************************************************************************)
AppendThenList ==
  \A r \in Reqs \ {1} :
    (IsAppend(r - 1) /\ Acked(r - 1) /\ IsList(r) /\ Acked(r))
      => resp[r].reviews = resp[r - 1].review \o Before(r - 1)

\* An Append of a name and text that were already stored, then the List.
AppendThenListWitness ==
  \E r \in Reqs \ {1} :
    /\ IsAppend(r - 1) /\ Acked(r - 1) /\ IsList(r) /\ Acked(r)
    /\ Len(Before(r - 1)) >= 2
    /\ \E i \in 1..Len(Before(r - 1)) :
         /\ Before(r - 1)[i].name = resp[r - 1].review[1].name
         /\ Before(r - 1)[i].text = resp[r - 1].review[1].text
    /\ Len(resp[r].reviews) = Len(Before(r - 1)) + 1

(***************************************************************************)
(* C2: in a sequential run, a List that finds the collection absent or     *)
(* empty returns the three seed records and stores them; the List that     *)
(* follows returns the same three records, writes nothing and leaves three *)
(* records stored.                                                         *)
(***************************************************************************)
EmptyBefore(r) == hist[r].seen = Absent \/ hist[r].seen = putJsonUtf8(<<>>)

SeedOnceOnEmpty ==
  /\ \A r \in Reqs :
       (IsList(r) /\ Acked(r) /\ EmptyBefore(r))
         => /\ resp[r].reviews = seed
            /\ io[r].writes = 1
            /\ Latest(r) => kv = putJsonUtf8(seed)
  /\ \A r \in Reqs \ {1} :
       (IsList(r - 1) /\ Acked(r - 1) /\ EmptyBefore(r - 1)
          /\ IsList(r) /\ Done(r))
         => /\ io[r].writes = 0
            /\ Latest(r) => Len(kv.items) = 3
            /\ Acked(r) => resp[r].reviews = seed

\* Two Lists in a row on a store that held the empty list.
SeedOnceOnEmptyWitness ==
  \E r \in Reqs \ {1} :
    /\ IsList(r - 1) /\ Acked(r - 1) /\ hist[r - 1].seen = putJsonUtf8(<<>>)
    /\ IsList(r) /\ Acked(r)

(***************************************************************************)
(* C3: in a sequential run, an acknowledged DeleteByName(n) leaves exactly *)
(* the previous records whose lowercased name differs from lowercased n,   *)
(* in their order, and reports the number of records dropped, at least 1.  *)
(***************************************************************************)
Survivors(r) == SelectSeq(Before(r), LAMBDA x : ~SameLetters(x.name, Query(r)))

DeleteRemovesExactly ==
  \A r \in Reqs :
    (IsDelete(r) /\ Acked(r))
      => /\ resp[r].removed = Len(Before(r)) - Len(Survivors(r))
         /\ resp[r].removed >= 1
         /\ Latest(r) => kv = putJsonUtf8(Survivors(r))

\* A delete of "A" that dropped the records named "A" and "a" and kept more
\* than one record.
DeleteRemovesExactlyWitness ==
  \E r \in Reqs :
    /\ IsDelete(r) /\ Acked(r) /\ Latest(r)
    /\ Query(r) = NameUpper
    /\ resp[r].removed = 2
    /\ Len(kv.items) >= 2
    /\ \E i \in 1..Len(Before(r)) : Before(r)[i].name = NameLower

(***************************************************************************)
(* C4: in a sequential run, a DeleteByName that matches no stored record   *)
(* answers 404 and writes nothing: the stored value is as it was, an       *)
(* absent key is still absent.                                             *)
(***************************************************************************)
ValidDelete(r) == IsDelete(r) /\ req[r].parsable /\ ~Falsy(req[r].body, "name")

NoMatch(r) == \A i \in 1..Len(Before(r)) : ~SameLetters(Before(r)[i].name, Query(r))

DeleteNoMatchIsNotFound ==
  \A r \in Reqs :
    (ValidDelete(r) /\ Done(r) /\ resp[r].status # 500 /\ NoMatch(r))
      => /\ resp[r].status = 404
         /\ ~resp[r].ok
         /\ io[r].writes = 0
         /\ Latest(r) => kv = hist[r].seen

\* A delete answered 404 on the absent key, which is still absent.
DeleteNoMatchIsNotFoundWitness ==
  \E r \in Reqs :
    /\ ValidDelete(r) /\ Done(r) /\ resp[r].status = 404
    /\ hist[r].seen = Absent /\ kv = Absent

(***************************************************************************)
(* C5: in a sequential run, the second of two DeleteByName calls with the  *)
(* same name answers 404 and leaves the store as the first call left it.   *)
(***************************************************************************)
Answered(r) == Done(r) /\ resp[r].status \in {200, 404}

DeleteTwice ==
  \A r \in Reqs \ {1} :
    (ValidDelete(r - 1) /\ ValidDelete(r) /\ Query(r - 1) = Query(r)
       /\ Answered(r - 1) /\ Answered(r))
      => /\ resp[r].status = 404
         /\ io[r].writes = 0
         /\ Latest(r) => kv = hist[r].seen

\* The first delete removed two records, the second found none.
DeleteTwiceWitness ==
  \E r \in Reqs \ {1} :
    /\ ValidDelete(r - 1) /\ ValidDelete(r) /\ Query(r - 1) = Query(r)
    /\ Acked(r - 1) /\ resp[r - 1].removed = 2
    /\ Done(r) /\ resp[r].status = 404

(***************************************************************************)
(* C6: an Append whose name or text is missing or empty, and a             *)
(* DeleteByName whose name is missing or empty, is answered 400 with       *)
(* ok:false without a store read or write.                                 *)
(***************************************************************************)
InvalidBody(r) ==
  /\ req[r].parsable
  /\ \/ IsAppend(r) /\ \E f \in {"name", "text"} :
                          f \notin DOMAIN req[r].body \/ Len(req[r].body[f]) = 0
     \/ IsDelete(r) /\ ("name" \notin DOMAIN req[r].body
                          \/ Len(req[r].body.name) = 0)

ValidationBeforeStore ==
  \A r \in Reqs :
    (pc[r] # "idle" /\ InvalidBody(r))
      => /\ Done(r)
         /\ resp[r].status = 400 /\ resp[r].kind = "json" /\ ~resp[r].ok
         /\ io[r].reads = 0 /\ io[r].writes = 0
         /\ Latest(r) => ver = hist[r].ver0

\* An Append with an empty name and a DeleteByName with an empty name were
\* both rejected.
ValidationBeforeStoreWitness ==
  /\ \E r \in Reqs : IsAppend(r) /\ Done(r) /\ resp[r].status = 400
                       /\ "name" \in DOMAIN req[r].body
                       /\ req[r].body.name = <<>>
  /\ \E r \in Reqs : IsDelete(r) /\ Done(r) /\ resp[r].status = 400
                       /\ "name" \in DOMAIN req[r].body

(***************************************************************************)
(* C7: a List that finds a stored value that cannot be decoded, and whose  *)
(* store calls all succeed, writes the three seed records and returns them *)
(* with ok:true.                                                           *)
(***************************************************************************)
MalformedIsReseeded ==
  \A r \in Reqs :
    (IsList(r) /\ Done(r) /\ hist[r].seen = Malformed /\ io[r].failed = 0)
      => /\ Acked(r)
         /\ resp[r].reviews = seed
         /\ io[r].writes = 1
         /\ Latest(r) => kv = putJsonUtf8(seed)

(***************************************************************************)
(* C8: every request completes with a response of the worker; when a store *)
(* read, a store write or the upstream call failed, the response is the    *)
(* JSON envelope with ok:false and status 500.                             *)
(***************************************************************************)
FailuresAreEnveloped ==
  \A r \in Reqs :
    Done(r)
      => /\ resp[r].kind # "unhandled"
         /\ io[r].failed > 0
              => resp[r].kind = "json" /\ ~resp[r].ok /\ resp[r].status = 500

(***************************************************************************)
(* C9: an acknowledged Append or DeleteByName stores the value it computed *)
(* from its own read, whatever has been written since that read: the last  *)
(* write wins, and two acknowledged writes can leave the store without the *)
(* effect of one of them.                                                  *)
(***************************************************************************)
\* Request r completes in this step with ok:true.
Acks(r) == ~Done(r) /\ pc'[r] = "done" /\ resp'[r].status = 200 /\ resp'[r].ok

LastWriteWins ==
  [][\A r \in Reqs :
       /\ (IsAppend(r) /\ Acks(r))
            => kv' = putJsonUtf8(resp'[r].review \o Seen(r))
       /\ (IsDelete(r) /\ Acks(r))
            => kv' = putJsonUtf8(SelectSeq(Seen(r),
                         LAMBDA x : ~SameLetters(x.name, Query(r))))]_vars

\* The record request r appended is in the stored collection.
Stored(r) ==
  \E i \in 1..Len(Collection(kv)) : Collection(kv)[i] = resp[r].review[1]

\* Two Appends of different records were acknowledged, no other request has
\* arrived, and the store holds the record of only one of them.
LostUpdateWitness ==
  \E a, b \in Reqs :
    /\ a # b
    /\ IsAppend(a) /\ Acked(a) /\ IsAppend(b) /\ Acked(b)
    /\ resp[a].review # resp[b].review
    /\ \A r \in Reqs \ {a, b} : pc[r] = "idle"
    /\ ~Stored(a) /\ Stored(b)
    /\ Seen(a) = Seen(b)
    /\ Len(Collection(kv)) = Len(Seen(a)) + 1

(***************************************************************************)
(* C10 as stated: no write takes effect between the read of a seeding List *)
(* and its write of the seed, and the seed write never replaces a non-empty*)
(* collection.                                                             *)
(***************************************************************************)
\* Request r, a List, writes the seed in this step.
Seeds(r) == IsList(r) /\ pc[r] = "get_write" /\ Acks(r)

SeedingIsAtomic ==
  [][\A r \in Reqs :
       Seeds(r) => ver = hist[r].seenVer /\ Len(Collection(kv)) = 0]_vars

(***************************************************************************)
(* C10 as amended: a seed write stores exactly the three seed records and  *)
(* is issued only after the List's own read found the collection absent or *)
(* empty; it replaces no non-empty collection when no write has taken      *)
(* effect since that read.                                                 *)
(***************************************************************************)
SeedingAfterEmptyRead ==
  [][\A r \in Reqs :
       Seeds(r) => /\ kv' = putJsonUtf8(seed)
                   /\ Len(Seen(r)) = 0
                   /\ ver = hist[r].seenVer => Len(Collection(kv)) = 0]_vars

\* A List seeded after an Append had been acknowledged: the store holds the
\* seed records only.
SeedingAfterEmptyReadWitness ==
  \E r, a \in Reqs :
    /\ IsList(r) /\ Acked(r) /\ io[r].writes = 1
    /\ IsAppend(a) /\ Acked(a)
    /\ ver = 2
    /\ kv = putJsonUtf8(seed)

(***************************************************************************)
(* C11 as stated: in every reachable state, whatever the interleaving of   *)
(* the requests, the stored collection is newest-first: of two records     *)
(* that carry a date, the one at the smaller index has the greater or      *)
(* equal date.                                                             *)
(***************************************************************************)
NewestFirst(c) ==
  \A i, j \in 1..Len(c) :
    (i < j /\ "date" \in DOMAIN c[i] /\ "date" \in DOMAIN c[j])
      => c[i].date >= c[j].date

NewestFirstAlways == NewestFirst(Collection(kv))

(***************************************************************************)
(* C11 as amended: while no Append has read the collection after a write   *)
(* took effect since that Append was received (as when the requests are    *)
(* handled one after the other), and the server clock does not go back,    *)
(* the stored collection is newest-first.                                  *)
(***************************************************************************)
\* Append r has read the store, and a write took effect between its arrival
\* and that read.
Overtaken(r) ==
  /\ IsAppend(r)
  /\ io[r].reads = 1
  /\ hist[r].seenVer # hist[r].ver0

NewestFirstUnlessOvertaken ==
  (\A r \in Reqs : ~Overtaken(r)) => NewestFirst(Collection(kv))

\* Two Appends, neither overtaken, were acknowledged on a store that held a
\* dated record: the three dates are stored in decreasing order.
NewestFirstUnlessOvertakenWitness ==
  /\ \E a, b \in Reqs : a # b /\ IsAppend(a) /\ Acked(a) /\ IsAppend(b) /\ Acked(b)
  /\ \A r \in Reqs : ~Overtaken(r)
  /\ Len(Collection(kv)) >= 3
  /\ \A i \in 1..3 : "date" \in DOMAIN Collection(kv)[i]
  /\ Collection(kv)[1].date > Collection(kv)[2].date
  /\ Collection(kv)[2].date > Collection(kv)[3].date

(***************************************************************************)
(* C12 as stated: every step that writes the collection leaves a sequence  *)
(* in which every record has a non-empty name, a non-empty text and a      *)
(* rating.                                                                 *)
(***************************************************************************)
ValidReview(x) ==
  /\ {"name", "text", "rating"} \subseteq DOMAIN x
  /\ x.name # <<>>
  /\ x.text # <<>>

OnlyValidReviewsWritten ==
  [][kv' # kv
       => /\ kv'.tag = "json"
          /\ \A i \in 1..Len(Collection(kv')) :
               ValidReview(Collection(kv')[i])]_vars

(***************************************************************************)
(* C12 as amended: the collection is absent or a sequence in which every   *)
(* record is one of the three seed records of List (two of which have an   *)
(* empty name) or has a non-empty name, a non-empty text and a rating.     *)
(***************************************************************************)
IsSeedRecord(x) == \E i \in 1..Len(seed) : x = seed[i]

SeedOrValidReviews ==
  /\ kv.tag \in {"absent", "json"}
  /\ \A i \in 1..Len(Collection(kv)) :
       IsSeedRecord(Collection(kv)[i]) \/ ValidReview(Collection(kv)[i])

\* A List seeded the empty store and an Append was acknowledged after it:
\* the store holds the new record and the three seed records, two of them
\* without a name.
SeedOrValidReviewsWitness ==
  \E l, a \in Reqs :
    /\ IsList(l) /\ Acked(l) /\ io[l].writes = 1
    /\ IsAppend(a) /\ Acked(a)
    /\ Collection(kv) = resp[a].review \o seed
    /\ ValidReview(Collection(kv)[1])
    /\ ~ValidReview(Collection(kv)[3])

(***************************************************************************)
(* C13: the key goes from absent to present only by the write of a List,   *)
(* which stores the three seed records, or by the write of an Append,      *)
(* which stores its own record alone; a DeleteByName never makes it        *)
(* present, and once present the key is never absent again.                *)
(***************************************************************************)
Initialized == kv # Absent

InitializedOnlyByListOrAppend ==
  [][/\ (~Initialized /\ Initialized')
          => \E r \in Reqs :
               /\ Acks(r)
               /\ \/ IsList(r) /\ kv' = putJsonUtf8(seed)
                  \/ IsAppend(r) /\ kv' = putJsonUtf8(resp'[r].review)
                                 /\ Len(resp'[r].review) = 1
     /\ Initialized => Initialized'
     /\ \A r \in Reqs :
          (IsDelete(r) /\ pc'[r] # pc[r] /\ ~Initialized) => ~Initialized']_vars

\* On the absent key a DeleteByName was answered 404 and left it absent,
\* then an Append initialized it with its record alone.
InitializedOnlyByListOrAppendWitness ==
  \E d, a \in Reqs :
    /\ ValidDelete(d) /\ Done(d) /\ resp[d].status = 404
    /\ hist[d].seen = Absent
    /\ IsAppend(a) /\ Acked(a) /\ hist[a].seen = Absent
    /\ Collection(kv) = resp[a].review
    /\ ver = 1

(***************************************************************************)
(* C14: the record an acknowledged Append returns has the name and the     *)
(* text of the body, the rating of the body when it has one, whatever its  *)
(* value, and 5 otherwise, and the date the server clock gave when the     *)
(* record was made, never the date of the body; the record is stored as    *)
(* returned, at position 0.                                                *)
(***************************************************************************)
AppendRecord ==
  \A r \in Reqs :
    (IsAppend(r) /\ Acked(r))
      => LET b == req[r].body
             rec == resp[r].review[1]
         IN /\ Len(resp[r].review) = 1
            /\ DOMAIN rec = {"name", "text", "rating", "date"}
            /\ rec.name = b.name
            /\ rec.text = b.text
            /\ "rating" \in DOMAIN b => rec.rating = b.rating
            /\ "rating" \notin DOMAIN b => rec.rating = 5
            /\ "date" \in DOMAIN b => rec.date # b.date
            /\ rec.date <= now
            /\ Latest(r) => rec.date = now /\ Collection(kv)[1] = rec

\* An Append whose body carried rating 0 and date 0, and one whose body
\* carried neither, were acknowledged.
AppendRecordWitness ==
  /\ \E r \in Reqs :
       /\ IsAppend(r) /\ Acked(r)
       /\ "date" \in DOMAIN req[r].body /\ req[r].body.rating = 0
       /\ resp[r].review[1].rating = 0 /\ resp[r].review[1].date >= 2
  /\ \E r \in Reqs :
       /\ IsAppend(r) /\ Acked(r) /\ Latest(r)
       /\ "rating" \notin DOMAIN req[r].body
       /\ Collection(kv)[1].rating = 5

(***************************************************************************)
(* C15: in handling one request the worker issues at most one read and at  *)
(* most one write of the key and at most one upstream call; when the write *)
(* or the upstream call fails, the request completes in that step with a   *)
(* response of the worker that reports the failure (ok:false, status 500); *)
(* a failed call of any kind ends the request, which issues nothing more.  *)
(***************************************************************************)
NothingRetried ==
  [][\A r \in Reqs :
       /\ io'[r].reads <= 1 /\ io'[r].writes <= 1 /\ io'[r].calls <= 1
       /\ (io'[r].failed > io[r].failed
             /\ (io'[r].writes > io[r].writes \/ io'[r].calls > io[r].calls))
            => /\ pc'[r] = "done"
               /\ resp'[r].kind = "json"
               /\ ~resp'[r].ok
               /\ resp'[r].status = 500
       /\ io'[r].failed > io[r].failed => pc'[r] = "done"
       /\ Done(r) => io'[r] = io[r]]_vars

(***************************************************************************)
(* C16: the method and the path of a request decide its one outcome.       *)
(* OPTIONS on any path is answered 204 without a body; GET / is answered   *)
(* by the health check; GET, POST and DELETE on /reviews enter List,       *)
(* Append and DeleteByName; POST on any other path enters the proxy; any   *)
(* other request is answered 404 Not Found.  Only requests in the three    *)
(* /reviews handlers read or write the store, only requests in the proxy   *)
(* call the upstream.                                                      *)
(***************************************************************************)
\* Request r is in, or has completed in, one of the handlers whose awaits
\* are P, with one of the errors E if it completed before its first await.
InHandler(r, P, E) ==
  \/ pc'[r] \in P
  \/ /\ pc'[r] = "done"
     /\ resp'[r].kind = "json" /\ ~resp'[r].ok
     /\ resp'[r].status \in {400, 500}
     /\ resp'[r].error \in E

OnReviews(q, m) == q.path = "/reviews" /\ q.method = m

ToProxy(q) == q.method = "POST" /\ q.path # "/reviews"

ClientJson(r) == req[r].body

SentObject(r) ==
  /\ ToProxy(req[r])
  /\ req[r].parsable
  /\ ClientJson(r).type = "object"
  /\ upstream[r].request # <<>>

Sent(r) == upstream[r].request[1].body

Reply(r) == upstream[r].reply[1]

\* The members of the object b other than model are those of the object a.
SameButModel(a, b) ==
  /\ DOMAIN a.members \cup {"model"} = DOMAIN b.members \cup {"model"}
  /\ \A f \in DOMAIN a.members \ {"model"} : a.members[f] = b.members[f]

ProxyIsVerbatim ==
  \A r \in Reqs :
    (SentObject(r) /\ Done(r))
      => /\ "model" \in DOMAIN ClientJson(r).members => Sent(r) = ClientJson(r)
         /\ "model" \notin DOMAIN ClientJson(r).members
              => /\ Sent(r).members.model = DEFAULT_MODEL
                 /\ SameButModel(ClientJson(r), Sent(r))
         /\ upstream[r].reply # <<>>
              => /\ resp[r].status = Reply(r).status
                 /\ resp[r].text = Reply(r).text
                 /\ "Content-Type" \in DOMAIN resp[r].headers
                      <=> "Content-Type" \in DOMAIN Reply(r).headers
                 /\ "Content-Type" \in DOMAIN Reply(r).headers
                      => resp[r].headers["Content-Type"]
                           = Reply(r).headers["Content-Type"]

(***************************************************************************)
(* C18: the credential of the server is sent in the Authorization header   *)
(* of the upstream request and nowhere else: no other part of the upstream *)
(* request and no response the worker builds holds it, and the             *)
(* Authorization header of the client is never sent upstream.              *)
(***************************************************************************)
\* The values of the function or sequence f.
Values(f) == {f[x] : x \in DOMAIN f}

\* The strings a response of the worker is made of; the records of reviews
\* hold names, texts, ratings and dates only.
StringsOf(rsp) ==
  {rsp.kind, rsp.error, rsp.text} \cup Values(rsp.headers) \cup Values(rsp.info)

\* The strings of the parts of the upstream request u other than its
\* Authorization header.
StringsBesideAuthorization(u) ==
  {u.url, u.method} \cup Values(u.body.members)
  \cup UNION {Values(u.headers[h]) : h \in DOMAIN u.headers \ {"Authorization"}}

CredentialOnlyUpstream ==
  \A r \in Reqs :
    /\ GITHUB_MODELS_TOKEN \notin StringsOf(resp[r])
    /\ upstream[r].request # <<>>
         => LET u == upstream[r].request[1] IN
            /\ u.url = GH_MODELS_URL
            /\ u.headers["Authorization"] = <<"Bearer ", GITHUB_MODELS_TOKEN>>
            /\ GITHUB_MODELS_TOKEN \notin StringsBesideAuthorization(u)
            /\ \A h \in DOMAIN u.headers : req[r].auth \notin Values(u.headers[h])

\* A request that carried an Authorization header of the client was
\* forwarded with the credential of the server and answered by the upstream,
\* and a health check was answered.
CredentialOnlyUpstreamWitness ==
  \E r, h \in Reqs :
    /\ ToProxy(req[r]) /\ Done(r) /\ req[r].auth # "none"
    /\ upstream[r].request # <<>> /\ upstream[r].reply # <<>>
    /\ GITHUB_MODELS_TOKEN
         \in Values(upstream[r].request[1].headers["Authorization"])
    /\ resp[r].kind = "upstream"
    /\ Done(h) /\ resp[h].info # <<>>

(***************************************************************************)
(* C19: every response the worker returns, whatever the route and the      *)
(* status, carries the CORS headers: any origin, the methods GET, POST,    *)
(* OPTIONS and DELETE, and the headers Content-Type, Authorization and     *)
(* X-GitHub-Api-Version.                                                   *)
(***************************************************************************)
\* The worker returned a response to request r.
Returned(r) == Done(r) /\ resp[r].kind # "unhandled"

CorsOnEveryResponse ==
  \A r \in Reqs :
    Returned(r)
      => /\ {"Access-Control-Allow-Origin", "Access-Control-Allow-Methods",
             "Access-Control-Allow-Headers"} \subseteq DOMAIN resp[r].headers
         /\ resp[r].headers["Access-Control-Allow-Origin"] = "*"
         /\ resp[r].headers["Access-Control-Allow-Methods"]
              = "GET,POST,OPTIONS,DELETE"
         /\ resp[r].headers["Access-Control-Allow-Headers"]
              = "Content-Type, Authorization, X-GitHub-Api-Version"

\* A reply of the upstream with status 401 was passed on, and a request was
\* answered with the envelope and status 500.
CorsOnEveryResponseWitness ==
  \E a, b \in Reqs :
    /\ Returned(a) /\ resp[a].kind = "upstream" /\ resp[a].status = 401
    /\ Returned(b) /\ resp[b].kind = "json" /\ resp[b].status = 500

(***************************************************************************)
(* C20: getJsonUtf8 after putJsonUtf8 of a collection returns a collection *)
(* equal to the one stored, record by record and string by string, also    *)
(* for strings with characters of two, three and four bytes.               *)
(***************************************************************************)
CodecRoundTrip ==
  \A r \in Reqs :
    pc[r] = "codec_return"
      => /\ loc[r].filtered[1].out = "ok"
         /\ loc[r].filtered[1].val = loc[r].stored
         /\ \A i \in 1..Len(loc[r].stored) :
              /\ loc[r].filtered[1].val[i].name = loc[r].stored[i].name
              /\ loc[r].filtered[1].val[i].text = loc[r].stored[i].text

\* A collection of two records was stored and loaded: one text holds a
\* character of four bytes, the other a surrogate without its pair.
CodecRoundTripWitness ==
  \E r \in Reqs :
    /\ pc[r] = "codec_return"
    /\ Len(loc[r].stored) = 2
    /\ loc[r].stored[1].text = TextEmoji
    /\ loc[r].stored[2].name = <<55357>>
    /\ Len(kv.items[1].text) = 7
    /\ loc[r].filtered[1].val[2].name = <<55357>>

(***************************************************************************)
(* C21: a GET request to /health is answered by the health check: status   *)
(* 200, ok:true and the identity of the service.                           *)
(***************************************************************************)
HealthPath(r) == req[r].method = "GET" /\ req[r].path = "/health"

HealthPathIsHealthCheck ==
  \A r \in Reqs :
    (Done(r) /\ HealthPath(r))
      => /\ resp[r].status = 200
         /\ resp[r].ok
         /\ resp[r] = Health

(***************************************************************************)
(* C22: List writes to the store only when the value it read was absent or *)
(* the empty list; a List that read a non-empty collection writes nothing  *)
(* and returns that collection in its stored order; no List returns an     *)
(* empty reviews array.                                                    *)
(***************************************************************************)
\* The store read of request r succeeded and found a collection with at
\* least one record.
ReadNonEmpty(r) ==
  /\ io[r].reads = 1 /\ io[r].failed = 0
  /\ hist[r].seen.tag = "json" /\ Len(hist[r].seen.items) > 0

ListWritesOnlyOnEmpty ==
  \A r \in Reqs :
    IsList(r)
      => /\ (pc[r] = "get_write" \/ io[r].writes > 0)
              => /\ io[r].reads = 1
                 /\ EmptyBefore(r)
         /\ (Done(r) /\ ReadNonEmpty(r))
              => /\ io[r].writes = 0
                 /\ Acked(r)
                 /\ resp[r].reviews = Seen(r)
                 /\ \A i \in 1..Len(hist[r].seen.items) :
                      resp[r].reviews[i] = DecodeReview(hist[r].seen.items[i])
         /\ (Done(r) /\ resp[r].kind = "json") => Len(resp[r].reviews) > 0

\* One List read an absent value, wrote the seed and returned it; the next
\* read the three records, returned them and wrote nothing.
ListWritesOnlyOnEmptyWitness ==
  \E a, b \in Reqs :
    /\ IsList(a) /\ Acked(a) /\ io[a].writes = 1 /\ hist[a].seen = Absent
    /\ IsList(b) /\ Done(b) /\ ReadNonEmpty(b) /\ io[b].writes = 0
    /\ Len(resp[b].reviews) = 3 /\ resp[b].reviews[1].name = SeedName1
    /\ kv = hist[b].seen

(***************************************************************************)
(* C23: when the upstream call of a proxied request fails in transport,    *)
(* the client receives status 500 with the envelope ok:false and an error  *)
(* message, and the request neither reads nor writes the store.            *)
(***************************************************************************)
\* The upstream call of request r was issued and failed: no reply came.
CallFailed(r) ==
  /\ ToProxy(req[r])
  /\ io[r].calls = 1 /\ io[r].failed = 1
  /\ upstream[r].reply = <<>>

TransportFailureIsEnveloped ==
  \A r \in Reqs :
    CallFailed(r)
      => /\ Done(r)
         /\ resp[r].kind = "json"
         /\ resp[r].status = 500
         /\ ~resp[r].ok
         /\ resp[r].error # ""
         /\ resp[r].headers = WithContentType("application/json; charset=utf-8", cors)
         /\ io[r].reads = 0 /\ io[r].writes = 0
         /\ Latest(r) => ver = hist[r].ver0

\* A store that holds two records, an Append that added a third, then a
\* proxied request whose call failed after its request was sent upstream.
TransportFailureIsEnvelopedWitness ==
  \E r \in Reqs \ {1} :
    /\ CallFailed(r) /\ Done(r)
    /\ upstream[r].request # <<>>
    /\ IsAppend(r - 1) /\ Acked(r - 1)
    /\ Len(Collection(kv)) = 3

(***************************************************************************)
(* C24: DeleteByName never removes a record whose name is empty: a write   *)
(* of DeleteByName keeps the records with an empty name, in their order.   *)
(* In a sequential run, once the two anonymous seed records are stored     *)
(* they are stored in every later state, the collection is never empty     *)
(* again and no List writes the seed again.                                *)
(***************************************************************************)
\* The records of the stored value v that have an empty name.
Anonymous(v) == SelectSeq(Collection(v), LAMBDA x : x.name = <<>>)

\* The stored value v holds the two anonymous seed records.
HasAnonymousSeeds(v) ==
  /\ v.tag = "json"
  /\ \E i, j \in 1..Len(v.items) :
       /\ i < j
       /\ Collection(v)[i] = seed[2]
       /\ Collection(v)[j] = seed[3]

\* A write of DeleteByName keeps the records with an empty name.
DeleteKeepsAnonymous ==
  \A r \in Reqs :
    (IsDelete(r) /\ io'[r].writes > io[r].writes)
      => /\ Anonymous(kv') = Anonymous(kv)
         /\ Query(r) # <<>>

\* The anonymous seed records, once stored, stay; no List seeds again.
SeedStays ==
  HasAnonymousSeeds(kv)
    => /\ HasAnonymousSeeds(kv')
       /\ Len(Collection(kv')) >= 2
       /\ \A r \in Reqs :
            IsList(r) => /\ pc'[r] # "get_write"
                         /\ io'[r].writes = io[r].writes

\* C24: every step keeps both of the above.
AnonymousRecordsStay == [][DeleteKeepsAnonymous /\ SeedStays]_vars

\* The seed was stored under an older record; a DeleteByName of the seed's
\* named record and one of the older record's name have left the two
\* anonymous records, and nothing else.
AnonymousRecordsStayWitness ==
  /\ Collection(kv) = <<seed[2], seed[3]>>
  /\ \E a, b \in Reqs :
       /\ a # b
       /\ IsDelete(a) /\ Acked(a) /\ Query(a) = NameSeedLower
       /\ IsDelete(b) /\ Acked(b) /\ Query(b) = NameUpper
       /\ Len(Anonymous(hist[a].seen)) = 2
       /\ Len(Anonymous(hist[b].seen)) = 2

(***************************************************************************)
(* C25: a POST or DELETE on /reviews whose body is not JSON text is        *)
(* answered 500 (not 400) with the envelope ok:false and an error message; *)
(* the handler issues no store read or write and the stored value is the   *)
(* one the request found.                                                  *)
(***************************************************************************)
\* Request r has arrived at handlePostReview or handleDeleteReview with a
\* body that req.json() rejects.
UnparsableBody(r) ==
  /\ pc[r] # "idle"
  /\ IsAppend(r) \/ IsDelete(r)
  /\ ~req[r].parsable

UnparsableBodyIs500 ==
  \A r \in Reqs :
    UnparsableBody(r)
      => /\ Done(r)
         /\ resp[r].kind = "json"
         /\ resp[r].status = 500
         /\ ~resp[r].ok
         /\ resp[r].error # ""
         /\ io[r].reads = 0 /\ io[r].writes = 0
         /\ hist[r].seenVer = 0 /\ hist[r].seen = Absent
         /\ Latest(r) => ver = hist[r].ver0

\* A POST /reviews and a DELETE /reviews that are not JSON were both
\* answered 500; the store holds the two records it held before them.
UnparsableBodyIs500Witness ==
  \E a, b \in Reqs :
    /\ IsAppend(a) /\ UnparsableBody(a) /\ Done(a) /\ resp[a].status = 500
    /\ IsDelete(b) /\ UnparsableBody(b) /\ Done(b) /\ resp[b].status = 500
    /\ kv = putJsonUtf8(<<OldUpper, OldLower>>)
    /\ ver = 0

=============================================================================
